---- MODULE Spec2Model ----
(***************************************************************************)
(* Model of the two command handlers of community.cockroachdb:             *)
(*   plugins/modules/cockroachdb_db.py     (the database reconciler)       *)
(*   plugins/modules/cockroachdb_query.py  (the query executor)            *)
(* One invocation is one process; a behaviour is a bounded succession of   *)
(* invocations against one database server whose catalog persists.         *)
(***************************************************************************)
EXTENDS Integers, Sequences, FiniteSets, TLC

VARIABLES
    catalog,              \* server side: database name -> owner, or None when it does not exist
    catalog0,             \* the catalog as it was when the current invocation started
    runs,                 \* number of invocations started so far
    prev,                 \* what the previous reconciler invocation was given and reported
    handler,              \* "none", "db" or "query": the module being run
    pc,                   \* position of the running invocation in main()
    params,               \* module.params (and module.check_mode)
    conn,                 \* "none", "open" or "closed"
    cursor,               \* "none", "open" or "closed"
    closes,               \* the close() calls made so far, in order
    database,             \* the CockroachDBDatabase object: [exists, owner]
    changed,              \* main()'s local variable changed
    executed_statements,  \* the module-level list executed_statements
    result,               \* what the process reported: exit_json, fail_json, or an uncaught exception
    q                     \* locals of the query executor's main() and execute()

vars == <<catalog, catalog0, runs, prev, handler, pc, params, conn, cursor, closes,
          database, changed, executed_statements, result, q>>

-----------------------------------------------------------------------------
(* Bounds of the model *)

\* invocations in one behaviour
MaxRuns == 2
\* values in one result set (rows times columns)
MaxCells == 4

(* Python's None *)
None == "<None>"

Names == {"test_db", "Acme"}
Users == {"root", "alice"}
LoginUser == "root"

(* a value of module.params['owner']: not given, the empty string, or a role name *)
OwnerParams == {None, ""} \cup Users

(* Python truthiness of an optional string *)
Truthy(v) == v # None /\ v # ""

Catalogs == [Names -> Users \cup {None}]

-----------------------------------------------------------------------------
(* The database server, as far as the statements of cockroachdb_db.py go.  *)
(* A statement is text; the server recognises it by its text.              *)

CreateText(n) == "CREATE DATABASE \"" \o n \o "\""
\* the lexer ends the quoted identifier at the closing quote, so the owner
\* clause is recognised with or without white space before OWNER
CreateOwnerTexts(n, o) == {CreateText(n) \o sep \o "OWNER " \o o : sep \in {"", " "}}
DropText(n) == "DROP DATABASE \"" \o n \o "\""
AlterOwnerText(n, o) == "ALTER DATABASE \"" \o n \o "\" OWNER TO " \o o

\* can the server execute text against catalog cat without an error
ServerAccepts(cat, text) ==
    \/ \E n \in Names : text = CreateText(n) /\ cat[n] = None
    \/ \E n \in Names, o \in Users : text \in CreateOwnerTexts(n, o) /\ cat[n] = None
    \/ \E n \in Names : text = DropText(n) /\ cat[n] # None
    \/ \E n \in Names, o \in Users : text = AlterOwnerText(n, o) /\ cat[n] # None

\* the catalog after the server executed text
ServerExecute(cat, text) ==
    IF \E n \in Names : text = CreateText(n)
    THEN [cat EXCEPT ![CHOOSE n \in Names : text = CreateText(n)] = LoginUser]
    ELSE IF \E n \in Names, o \in Users : text \in CreateOwnerTexts(n, o)
    THEN LET no == CHOOSE no \in Names \X Users : text \in CreateOwnerTexts(no[1], no[2])
         IN  [cat EXCEPT ![no[1]] = no[2]]
    ELSE IF \E n \in Names : text = DropText(n)
    THEN [cat EXCEPT ![CHOOSE n \in Names : text = DropText(n)] = None]
    ELSE IF \E n \in Names, o \in Users : text = AlterOwnerText(n, o)
    THEN LET no == CHOOSE no \in Names \X Users : text = AlterOwnerText(no[1], no[2])
         IN  [cat EXCEPT ![no[1]] = no[2]]
    ELSE cat

\* the rows SHOW DATABASES returns
ShowDatabases(cat) == {[database_name |-> n, owner |-> cat[n]] : n \in {m \in Names : cat[m] # None}}

-----------------------------------------------------------------------------
(* cockroachdb_db.py: class CockroachDBDatabase *)

\* __init__ defaults, then __fetch_info over the rows of SHOW DATABASES
fetch_info(name, res) ==
    IF \E d \in res : d.database_name = name
    THEN [exists |-> TRUE, owner |-> (CHOOSE d \in res : d.database_name = name).owner]
    ELSE [exists |-> FALSE, owner |-> None]

\* a method's effect: the statements it executes and logs, in order, and its return value
Effect(stmts, ret) == [stmts |-> stmts, ret |-> ret]

create_query(name, owner) ==
    IF Truthy(owner)
    THEN "CREATE DATABASE \"" \o name \o "\"" \o "OWNER " \o owner
    ELSE "CREATE DATABASE \"" \o name \o "\""

\* create() without its check-mode return
create_unchecked(name, p) ==
    Effect(<<create_query(name, p.owner)>>, None)

create(name, p) ==
    IF p.check_mode
    THEN Effect(<<>>, None)
    ELSE Effect(<<create_query(name, p.owner)>>, None)

\* drop() with the check-mode test inverted
drop_inverted(name, p) ==
    IF ~p.check_mode
    THEN Effect(<<>>, TRUE)
    ELSE Effect(<<"DROP DATABASE \"" \o name \o "\"">>, None)

drop(name, p) ==
    IF p.check_mode
    THEN Effect(<<>>, TRUE)
    ELSE Effect(<<"DROP DATABASE \"" \o name \o "\"">>, None)

change_owner(name, new_owner) ==
    Effect(<<"ALTER DATABASE \"" \o name \o "\" OWNER TO " \o new_owner>>, None)

\* modify() without "changed = True" after the owner change
modify_unreported(name, p, owner) ==
    IF Truthy(owner)
    THEN IF p.check_mode
         THEN Effect(<<>>, TRUE)
         ELSE Effect(change_owner(name, owner).stmts, FALSE)
    ELSE Effect(<<>>, FALSE)

modify(name, p, owner) ==
    IF Truthy(owner)
    THEN IF p.check_mode
         THEN Effect(<<>>, TRUE)
         ELSE Effect(change_owner(name, owner).stmts, TRUE)
    ELSE Effect(<<>>, FALSE)

\* main(), "Do job": the statements executed and the value changed ends with
DoJob(db, p) ==
    IF p.state = "present"
    THEN IF ~db.exists
         THEN [stmts |-> create(p.name, p).stmts, changed |-> TRUE]
         ELSE LET m == modify(p.name, p, p.owner)
              IN  [stmts |-> m.stmts, changed |-> m.ret]
    ELSE IF db.exists
         THEN [stmts |-> drop(p.name, p).stmts, changed |-> TRUE]
         ELSE [stmts |-> <<>>, changed |-> FALSE]

-----------------------------------------------------------------------------
(* Shared shapes *)

NoResult == [kind |-> "none", msg |-> "", changed |-> FALSE, executed_statements |-> <<>>]
NoPrev == [handler |-> "none", params |-> [name |-> "", state |-> "", owner |-> None, check_mode |-> FALSE],
           existed |-> FALSE, kind |-> "none", changed |-> FALSE, executed_statements |-> <<>>]
NoDatabase == [exists |-> FALSE, owner |-> None]
NoArg == [given |-> FALSE, items |-> <<>>]
NoQuery == [pre |-> "", ph |-> ""]
NoQ == [query |-> NoQuery, positional_args |-> NoArg, named_args |-> NoArg,
        args |-> [kind |-> "none", items |-> <<>>], mogrified_query |-> None,
        executed |-> FALSE, statusmessage |-> None, rowcount |-> -1,
        fetch_raised |-> [type |-> "", msg |-> ""], query_result |-> <<>>, rows |-> <<>>]

DbParams == [name : Names, state : {"present", "absent"}, owner : OwnerParams, check_mode : BOOLEAN]

\* a cursor.execute() logged as the code logs it: (query, ())
Logged(stmts) == [i \in 1..Len(stmts) |-> <<stmts[i], <<>>>>]

RECURSIVE ExecuteAll(_, _)
ExecuteAll(cat, stmts) ==
    IF stmts = <<>> THEN cat ELSE ExecuteAll(ServerExecute(cat, Head(stmts)), Tail(stmts))

-----------------------------------------------------------------------------
Init ==
    /\ catalog \in Catalogs
    /\ catalog0 = catalog
    /\ runs = 0
    /\ prev = NoPrev
    /\ handler = "none"
    /\ pc = "idle"
    /\ params = [name |-> "", state |-> "", owner |-> None, check_mode |-> FALSE]
    /\ conn = "none"
    /\ cursor = "none"
    /\ closes = <<>>
    /\ database = NoDatabase
    /\ changed = FALSE
    /\ executed_statements = <<>>
    /\ result = NoResult
    /\ q = NoQ

\* what a finished reconciler invocation leaves for the next one to be compared with
Remember ==
    IF handler = "db"
    THEN [handler |-> "db", params |-> params, existed |-> catalog0[params.name] # None,
          kind |-> result.kind,
          changed |-> result.changed, executed_statements |-> result.executed_statements]
    ELSE NoPrev

\* a new process: module state starts afresh
FreshProcess ==
    /\ pc \in {"idle", "done"}
    /\ runs < MaxRuns
    /\ runs' = runs + 1
    /\ catalog0' = catalog
    /\ conn' = "none"
    /\ cursor' = "none"
    /\ closes' = <<>>
    /\ database' = NoDatabase
    /\ changed' = FALSE
    /\ executed_statements' = <<>>
    /\ result' = NoResult
    /\ UNCHANGED catalog

(* cockroachdb_db.py main(): AnsibleModule(...), params read, changed = False *)
DbStart ==
    /\ FreshProcess
    /\ prev' = Remember
    /\ \E p \in DbParams : params' = p
    /\ q' = NoQ
    /\ handler' = "db"
    /\ pc' = "db_connect"

\* cockroachdb.connect() and conn.cursor() succeed
DbConnect ==
    /\ pc = "db_connect"
    /\ conn' = "open"
    /\ cursor' = "open"
    /\ pc' = "db_fetch"
    /\ UNCHANGED <<catalog, catalog0, runs, prev, handler, params, closes, database,
                   changed, executed_statements, result, q>>

\* the connection provider fails the module: no session was acquired
DbConnectFails ==
    /\ pc = "db_connect"
    /\ result' = [NoResult EXCEPT !.kind = "fail_json", !.msg = "Cannot connect"]
    /\ pc' = "done"
    /\ UNCHANGED <<catalog, catalog0, runs, prev, handler, params, conn, cursor, closes,
                   database, changed, executed_statements, q>>

\* CockroachDBDatabase(module, cursor, name): SHOW DATABASES succeeds
DbFetchInfo ==
    /\ pc = "db_fetch"
    /\ database' = fetch_info(params.name, ShowDatabases(catalog))
    /\ pc' = "db_job"
    /\ UNCHANGED <<catalog, catalog0, runs, prev, handler, params, conn, cursor, closes,
                   changed, executed_statements, result, q>>

\* SHOW DATABASES raises: nothing in main() catches it
DbFetchInfoFails ==
    /\ pc = "db_fetch"
    /\ result' = [NoResult EXCEPT !.kind = "exception", !.msg = "SHOW DATABASES"]
    /\ pc' = "done"
    /\ UNCHANGED <<catalog, catalog0, runs, prev, handler, params, conn, cursor, closes,
                   database, changed, executed_statements, q>>

\* "Do job" runs to its end: every statement executed and logged
DbJob ==
    /\ pc = "db_job"
    /\ LET job == DoJob(database, params)
       IN  /\ \A i \in 1..Len(job.stmts) :
                  ServerAccepts(ExecuteAll(catalog, SubSeq(job.stmts, 1, i - 1)), job.stmts[i])
           /\ catalog' = ExecuteAll(catalog, job.stmts)
           /\ executed_statements' = executed_statements \o Logged(job.stmts)
           /\ changed' = job.changed
    /\ pc' = "db_close"
    /\ UNCHANGED <<catalog0, runs, prev, handler, params, conn, cursor, closes, database,
                   result, q>>

\* cursor.execute() of the k-th statement raises: the k-1 before it are executed
\* and logged, the exception leaves main() uncaught
DbJobFails ==
    /\ pc = "db_job"
    /\ LET job == DoJob(database, params)
       IN  \E k \in 1..Len(job.stmts) :
             /\ \A i \in 1..(k - 1) :
                    ServerAccepts(ExecuteAll(catalog, SubSeq(job.stmts, 1, i - 1)), job.stmts[i])
             /\ catalog' = ExecuteAll(catalog, SubSeq(job.stmts, 1, k - 1))
             /\ executed_statements' = executed_statements \o Logged(SubSeq(job.stmts, 1, k - 1))
             /\ result' = [NoResult EXCEPT !.kind = "exception", !.msg = job.stmts[k]]
    /\ pc' = "done"
    /\ UNCHANGED <<catalog0, runs, prev, handler, params, conn, cursor, closes, database,
                   changed, q>>

\* cursor.close(); conn.close()
DbClose ==
    /\ pc = "db_close"
    /\ cursor' = "closed"
    /\ conn' = "closed"
    /\ closes' = closes \o <<"cursor", "conn">>
    /\ pc' = "db_exit"
    /\ UNCHANGED <<catalog, catalog0, runs, prev, handler, params, database, changed,
                   executed_statements, result, q>>

\* module.exit_json(changed=changed, executed_statements=executed_statements)
DbExit ==
    /\ pc = "db_exit"
    /\ result' = [kind |-> "exit_json", msg |-> "", changed |-> changed,
                  executed_statements |-> executed_statements]
    /\ pc' = "done"
    /\ UNCHANGED <<catalog, catalog0, runs, prev, handler, params, conn, cursor, closes,
                   database, changed, executed_statements, q>>

-----------------------------------------------------------------------------
(* cockroachdb_query.py *)

\* values a cursor hands back: [kind, a, b, s]
\*   int: a;  decimal: a * 10^b;  float: a * 10^b with no trailing zero in a;
\*   timedelta: a days, b seconds;  str: s
Integer(n) == [kind |-> "int", a |-> n, b |-> 0, s |-> ""]
Decimal(coef, exp) == [kind |-> "decimal", a |-> coef, b |-> exp, s |-> ""]
Timedelta(days, seconds) == [kind |-> "timedelta", a |-> days, b |-> seconds, s |-> ""]
Str(text) == [kind |-> "str", a |-> 0, b |-> 0, s |-> text]

Values == {Integer(1), Decimal(1250, -2), Timedelta(1, 7200), Timedelta(2, 3661)}

\* result sets: every row has the result's number of columns
ResultSets(nrows) ==
    UNION {[1..nrows -> [1..c -> Values]] : c \in {c \in 0..MaxCells : nrows * c <= MaxCells}}

\* the tuple with datetime.timedelta left out
TYPES_WITHOUT_TIMEDELTA == {"decimal"}

TYPES_NEED_TO_CONVERT == {"decimal", "timedelta"}

\* float(decimal.Decimal): the number, without the decimal's scale
RECURSIVE float(_)
float(val) ==
    IF val.b < 0 /\ val.a % 10 = 0
    THEN float([val EXCEPT !.a = val.a \div 10, !.b = val.b + 1])
    ELSE [val EXCEPT !.kind = "float"]

TwoDigits(n) == IF n < 10 THEN "0" \o ToString(n) ELSE ToString(n)

\* str(datetime.timedelta) of whole seconds: "[D day[s], ]H:MM:SS"
str(val) ==
    LET mm == val.b \div 60
        ss == val.b % 60
        hh == mm \div 60
        clock == ToString(hh) \o ":" \o TwoDigits(mm % 60) \o ":" \o TwoDigits(ss)
        days == IF val.a # 0
                THEN ToString(val.a) \o " day" \o (IF val.a \notin {1, -1} THEN "s" ELSE "") \o ", "
                ELSE ""
    IN  Str(days \o clock)

convert_to_supported(val) ==
    IF val.kind = "decimal" THEN float(val)
    ELSE IF val.kind = "timedelta" THEN str(val)
    ELSE val

fetch_from_cursor(rows) ==
    [r \in 1..Len(rows) |->
        [i \in 1..Len(rows[r]) |->
            IF rows[r][i].kind \in TYPES_NEED_TO_CONVERT
            THEN convert_to_supported(rows[r][i])
            ELSE rows[r][i]]]

Python_truthy(arg) == arg.given /\ arg.items # <<>>

get_args(positional_args, named_args) ==
    IF Python_truthy(positional_args) THEN [kind |-> "positional", items |-> positional_args.items]
    ELSE IF Python_truthy(named_args) THEN [kind |-> "named", items |-> named_args.items]
    ELSE [kind |-> "none", items |-> <<>>]

\* AnsibleModule(...) without the mutually_exclusive argument
mutually_exclusive_omitted == {}

\* AnsibleModule(mutually_exclusive=...)
mutually_exclusive == {{"positional_args", "named_args"}}

\* the parameters the task supplied
Supplied(qq) == {k \in {"positional_args", "named_args"} :
                    IF k = "positional_args" THEN qq.positional_args.given ELSE qq.named_args.given}

\* AnsibleModule's check of mutually_exclusive: more than one of a group supplied
Rejected(qq) == \E group \in mutually_exclusive : Cardinality(group \cap Supplied(qq)) > 1

\* what execute() does with an exception raised while fetching
\* (lines 217-222: a ProgrammingError is passed over whatever its text)
on_fetch_error(exc) ==
    IF exc.type = "ProgrammingError"
    THEN IF exc.msg = "no results to fetch" THEN "pass" ELSE "pass"
    ELSE "fail_json"

Queries == {[pre |-> "SELECT version()", ph |-> ""],
            [pre |-> "SELECT * FROM test WHERE id = ", ph |-> "%s"],
            [pre |-> "SELECT * FROM test WHERE id = ", ph |-> "%(id_val)s"]}
QueryText(query) == query.pre \o query.ph
PositionalArgs == {NoArg, [given |-> TRUE, items |-> <<>>], [given |-> TRUE, items |-> <<1>>]}
NamedArgs == {NoArg, [given |-> TRUE, items |-> <<>>], [given |-> TRUE, items |-> << <<"id_val", 1>> >>]}

\* cursor.mogrify(query, args): the statement with the arguments rendered in
Mogrify(query, args) ==
    IF args.kind = "positional" /\ query.ph = "%s" THEN query.pre \o ToString(args.items[1])
    ELSE IF args.kind = "named" /\ query.ph = "%(id_val)s" THEN query.pre \o ToString(args.items[1][2])
    ELSE QueryText(query)

FetchErrors == {[type |-> "ProgrammingError", msg |-> "no results to fetch"],
                [type |-> "ProgrammingError", msg |-> "the connection is lost"],
                [type |-> "Exception", msg |-> "the connection is lost"]}

QUnchangedDb == <<catalog, catalog0, runs, prev, handler, params, database, changed,
                  executed_statements>>

\* main(): the process starts with the task's parameters
QStart ==
    /\ FreshProcess
    /\ prev' = NoPrev
    /\ handler' = "query"
    /\ params' = [name |-> "", state |-> "", owner |-> None, check_mode |-> FALSE]
    /\ \E query \in Queries, pa \in PositionalArgs, na \in NamedArgs :
          q' = [NoQ EXCEPT !.query = query, !.positional_args = pa, !.named_args = na]
    /\ pc' = "q_init"

\* AnsibleModule(...) accepts the parameters
QModuleInit ==
    /\ pc = "q_init"
    /\ ~Rejected(q)
    /\ pc' = "q_connect"
    /\ UNCHANGED <<conn, cursor, closes, result, q>>
    /\ UNCHANGED QUnchangedDb

\* AnsibleModule(...) fails the module: parameters are mutually exclusive
QModuleRejects ==
    /\ pc = "q_init"
    /\ Rejected(q)
    /\ result' = [NoResult EXCEPT !.kind = "fail_json", !.msg = "parameters are mutually exclusive"]
    /\ pc' = "done"
    /\ UNCHANGED <<conn, cursor, closes, q>>
    /\ UNCHANGED QUnchangedDb

QConnect ==
    /\ pc = "q_connect"
    /\ conn' = "open"
    /\ cursor' = "open"
    /\ pc' = "q_args"
    /\ UNCHANGED <<closes, result, q>>
    /\ UNCHANGED QUnchangedDb

QConnectFails ==
    /\ pc = "q_connect"
    /\ result' = [NoResult EXCEPT !.kind = "fail_json", !.msg = "Cannot connect"]
    /\ pc' = "done"
    /\ UNCHANGED <<conn, cursor, closes, q>>
    /\ UNCHANGED QUnchangedDb

\* args = get_args(positional_args, named_args)
QGetArgs ==
    /\ pc = "q_args"
    /\ q' = [q EXCEPT !.args = get_args(q.positional_args, q.named_args)]
    /\ pc' = "q_mogrify"
    /\ UNCHANGED <<conn, cursor, closes, result>>
    /\ UNCHANGED QUnchangedDb

\* execute(): mogrified_query = cursor.mogrify(query, args)
QMogrify ==
    /\ pc = "q_mogrify"
    /\ q' = [q EXCEPT !.mogrified_query = Mogrify(q.query, q.args)]
    /\ pc' = "q_execute"
    /\ UNCHANGED <<conn, cursor, closes, result>>
    /\ UNCHANGED QUnchangedDb

\* module.fail_json() leaves the process: SystemExit is no Exception, no handler stops it
QFailJson(msg) ==
    /\ result' = [NoResult EXCEPT !.kind = "fail_json", !.msg = msg]
    /\ pc' = "done"
    /\ UNCHANGED <<conn, cursor, closes>>
    /\ UNCHANGED QUnchangedDb

QMogrifyFails ==
    /\ pc = "q_mogrify"
    /\ QFailJson("Cannot execute query")
    /\ UNCHANGED q

\* cursor.execute(query, args) succeeds; statusmessage and rowcount are read
QExecute ==
    /\ pc = "q_execute"
    /\ \E n \in -1..MaxCells :
          q' = [q EXCEPT !.executed = TRUE,
                         !.statusmessage = IF n < 0 THEN "CREATE DATABASE" ELSE "SELECT " \o ToString(n),
                         !.rowcount = n]
    /\ pc' = "q_fetch"
    /\ UNCHANGED <<conn, cursor, closes, result>>
    /\ UNCHANGED QUnchangedDb

QExecuteFails ==
    /\ pc = "q_execute"
    /\ QFailJson("Cannot execute query")
    /\ UNCHANGED q

\* fetch_from_cursor(cursor) returns: the statement had a result set
QFetch ==
    /\ pc = "q_fetch"
    /\ q.rowcount >= 0
    /\ \E rows \in ResultSets(q.rowcount) :
          q' = [q EXCEPT !.rows = rows, !.query_result = fetch_from_cursor(rows)]
    /\ pc' = "q_close"
    /\ UNCHANGED <<conn, cursor, closes, result>>
    /\ UNCHANGED QUnchangedDb

\* fetch_from_cursor(cursor) raises, and execute() passes over it: query_result stays []
QFetchPassed ==
    /\ pc = "q_fetch"
    /\ \E exc \in FetchErrors :
          /\ exc.msg = "no results to fetch" <=> q.rowcount < 0
          /\ on_fetch_error(exc) = "pass"
          /\ q' = [q EXCEPT !.fetch_raised = exc]
    /\ pc' = "q_close"
    /\ UNCHANGED <<conn, cursor, closes, result>>
    /\ UNCHANGED QUnchangedDb

\* fetch_from_cursor(cursor) raises, and execute() fails the module
QFetchFails ==
    /\ pc = "q_fetch"
    /\ \E exc \in FetchErrors :
          /\ exc.msg = "no results to fetch" <=> q.rowcount < 0
          /\ on_fetch_error(exc) = "fail_json"
          /\ q' = [q EXCEPT !.fetch_raised = exc]
    /\ QFailJson("Cannot fetch rows from cursor")

\* try: cursor.close(); conn.close()
QClose ==
    /\ pc = "q_close"
    /\ cursor' = "closed"
    /\ conn' = "closed"
    /\ closes' = closes \o <<"cursor", "conn">>
    /\ pc' = "q_exit"
    /\ UNCHANGED <<result, q>>
    /\ UNCHANGED QUnchangedDb

\* except Exception: pass -- a close() that raises is passed over
QCloseFails ==
    /\ pc = "q_close"
    /\ \/ UNCHANGED <<cursor, conn, closes>>
       \/ cursor' = "closed" /\ closes' = closes \o <<"cursor">> /\ UNCHANGED conn
    /\ pc' = "q_exit"
    /\ UNCHANGED <<result, q>>
    /\ UNCHANGED QUnchangedDb

\* module.exit_json(changed=True, ...)
QExit ==
    /\ pc = "q_exit"
    /\ result' = [kind |-> "exit_json", msg |-> "", changed |-> TRUE, executed_statements |-> <<>>]
    /\ pc' = "done"
    /\ UNCHANGED <<conn, cursor, closes, q>>
    /\ UNCHANGED QUnchangedDb

-----------------------------------------------------------------------------
DbNext ==
    \/ DbStart
    \/ DbConnect
    \/ DbConnectFails
    \/ DbFetchInfo
    \/ DbFetchInfoFails
    \/ DbJob
    \/ DbJobFails
    \/ DbClose
    \/ DbExit

QueryNext ==
    \/ QStart
    \/ QModuleInit
    \/ QModuleRejects
    \/ QConnect
    \/ QConnectFails
    \/ QGetArgs
    \/ QMogrify
    \/ QMogrifyFails
    \/ QExecute
    \/ QExecuteFails
    \/ QFetch
    \/ QFetchPassed
    \/ QFetchFails
    \/ QClose
    \/ QCloseFails
    \/ QExit

Next == DbNext \/ QueryNext

\* both modules, run one after the other in any order against one server
Spec == Init /\ [][Next]_vars

\* the reconciler alone
DbSpec == Init /\ [][DbNext]_vars

\* the query executor alone
QueryInit == Init /\ \A n \in Names : catalog[n] = None
QuerySpec == QueryInit /\ [][QueryNext]_vars
-----------------------------------------------------------------------------
(* Properties of the reconciler (checked under DbSpec) *)

\* the reconciler reported through exit_json
DbCompleted == handler = "db" /\ pc = "done" /\ result.kind = "exit_json"

\* the texts of a statement log
Texts(log) == [i \in 1..Len(log) |-> log[i][1]]

ExistedAtStart == catalog0[params.name] # None

\* C1: state=present, an owner given, the database exists, not in check mode:
\* one ALTER DATABASE ... OWNER TO and changed=true when the catalog owner
\* differs from the requested one, no statement and changed=false when it is
\* the same.
C1_OwnerChangeDetected ==
    (DbCompleted /\ ~params.check_mode /\ params.state = "present"
        /\ Truthy(params.owner) /\ ExistedAtStart)
    => IF catalog0[params.name] # params.owner
       THEN /\ Texts(result.executed_statements)
                  = <<"ALTER DATABASE \"" \o params.name \o "\" OWNER TO " \o params.owner>>
            /\ result.changed
       ELSE /\ result.executed_statements = <<>>
            /\ ~result.changed

\* this invocation and the one before it are completed reconciler runs, not in
\* check mode, with identical parameters
SecondOfTwoIdentical ==
    /\ DbCompleted
    /\ prev.handler = "db"
    /\ prev.kind = "exit_json"
    /\ prev.params = params
    /\ ~params.check_mode

IsCreate(text, name) ==
    \/ text = CreateText(name)
    \/ \E o \in Users : text \in CreateOwnerTexts(name, o)

\* C2: present twice with identical parameters, the database missing at first:
\* changed=true with one CREATE, then changed=false with no statement, whatever
\* the owner parameter.
C2_PresentIdempotent ==
    (SecondOfTwoIdentical /\ params.state = "present" /\ ~prev.existed)
    => /\ prev.changed
       /\ Len(prev.executed_statements) = 1
       /\ IsCreate(prev.executed_statements[1][1], params.name)
       /\ ~result.changed
       /\ result.executed_statements = <<>>

\* C3: in check mode the catalog is never changed and the log stays empty, and
\* the verdict reported is the one the same invocation reports on the same
\* catalog when not in check mode.
C3_DryRun ==
    (handler = "db" /\ params.check_mode)
    => /\ catalog = catalog0
       /\ executed_statements = <<>>
       /\ DbCompleted =>
            /\ result.executed_statements = <<>>
            /\ result.changed =
                 DoJob(fetch_info(params.name, ShowDatabases(catalog0)),
                       [params EXCEPT !.check_mode = FALSE]).changed

\* a check-mode alter-owner run reported changed=true, after a check-mode drop that did too
C3_Witness ==
    /\ DbCompleted /\ params.check_mode /\ result.changed
    /\ params.state = "present" /\ ExistedAtStart /\ Truthy(params.owner)
    /\ prev.handler = "db" /\ prev.params.check_mode /\ prev.changed /\ prev.kind = "exit_json"
    /\ prev.params.state = "absent"

\* C6: absent twice with the same name, the database existing at first:
\* changed=true with exactly one DROP DATABASE "<name>", then changed=false
\* with no statement.
C6_AbsentIdempotent ==
    (SecondOfTwoIdentical /\ params.state = "absent" /\ prev.existed)
    => /\ prev.changed
       /\ Texts(prev.executed_statements) = <<"DROP DATABASE \"" \o params.name \o "\"">>
       /\ ~result.changed
       /\ result.executed_statements = <<>>

C6_Witness ==
    /\ SecondOfTwoIdentical /\ params.state = "absent" /\ prev.existed
    /\ ~result.changed /\ prev.changed

WhiteSpace == {" ", "  ", "\t", "\n"}
OwnerClauses(o) == {"OWNER " \o o, "OWNER = " \o o, "WITH OWNER " \o o, "WITH OWNER = " \o o}

\* C9: creating a missing database executes and logs exactly
\* CREATE DATABASE "<name>" when no owner is requested, and that text, white
\* space, and an owner clause when one is.
C9_CreateText ==
    (DbCompleted /\ ~params.check_mode /\ params.state = "present" /\ ~ExistedAtStart)
    => /\ Len(result.executed_statements) = 1
       /\ LET text == result.executed_statements[1][1]
          IN  IF Truthy(params.owner)
              THEN \E ws \in WhiteSpace, clause \in OwnerClauses(params.owner) :
                       text = CreateText(params.name) \o ws \o clause
              ELSE text = CreateText(params.name)

\* C10: the log never holds more than one statement; what it holds was
\* executed (the catalog is the starting catalog with the logged statements
\* applied, and a statement that failed is not logged); a completed run not in
\* check mode reports changed=true exactly when the log holds one statement.
C10_StatementLog ==
    handler = "db"
    => /\ Len(executed_statements) <= 1
       /\ catalog = ExecuteAll(catalog0, Texts(executed_statements))
       /\ result.kind = "exception" =>
             \A i \in 1..Len(executed_statements) : executed_statements[i][1] # result.msg
       /\ (DbCompleted /\ ~params.check_mode) =>
             /\ result.executed_statements = executed_statements
             /\ result.changed <=> Len(result.executed_statements) = 1

\* a completed run that changed the owner, after a run whose statement failed
C10_Witness ==
    /\ DbCompleted /\ ~params.check_mode /\ result.changed
    /\ Len(result.executed_statements) = 1
    /\ catalog # catalog0
    /\ prev.kind = "exception" /\ prev.executed_statements = <<>>
-----------------------------------------------------------------------------
(* Properties of the query executor (checked under QuerySpec) *)

FetchRaised == q.fetch_raised.type # ""
Benign == q.fetch_raised.msg = "no results to fetch"
RowFetchError == result.kind = "fail_json" /\ result.msg = "Cannot fetch rows from cursor"

\* C5: once the statement executed, the invocation ends in a row-fetch error
\* exactly when fetching raised something other than 'no results to fetch';
\* in the 'no results to fetch' case it succeeds with no rows.
C5_FetchFailureFatal ==
    (handler = "query" /\ pc = "done" /\ q.executed)
    => /\ RowFetchError <=> (FetchRaised /\ ~Benign)
       /\ (FetchRaised /\ Benign) => (result.kind = "exit_json" /\ q.query_result = <<>>)

BothSupplied == q.positional_args.given /\ q.named_args.given

\* C7: with both positional_args and named_args supplied, the invocation is at
\* the AnsibleModule constructor or has ended rejected by it; no connection or
\* cursor exists, nothing was mogrified, nothing executed.
C7_MutuallyExclusive ==
    (handler = "query" /\ BothSupplied)
    => /\ \/ pc = "q_init"
          \/ /\ pc = "done"
             /\ result.kind = "fail_json"
             /\ result.msg = "parameters are mutually exclusive"
       /\ conn = "none"
       /\ cursor = "none"
       /\ closes = <<>>
       /\ q.mogrified_query = None
       /\ ~q.executed

C7_Witness ==
    /\ handler = "query" /\ BothSupplied /\ pc = "done"
    /\ result.kind = "fail_json"
    /\ q.positional_args.items # <<>> /\ q.named_args.items # <<>>

RECURSIVE Pow10(_)
Pow10(n) == IF n <= 0 THEN 1 ELSE 10 * Pow10(n - 1)

\* w is what the row normalisation must make of the cursor's value v
Normalized(v, w) ==
    IF v.kind = "decimal"
    THEN /\ w.kind = "float"
         /\ w.b >= v.b
         /\ w.a * Pow10(w.b - v.b) = v.a
         /\ v = Decimal(1250, -2) => (w.a = 125 /\ w.b = -1)
    ELSE IF v.kind = "timedelta"
    THEN /\ w.kind = "str"
         /\ v = Timedelta(1, 7200) => w.s = "1 day, 2:00:00"
         /\ v = Timedelta(2, 3661) => w.s = "2 days, 1:01:01"
    ELSE w = v

RowsFetched == handler = "query" /\ q.executed /\ pc \in {"q_close", "q_exit", "done"} /\ ~FetchRaised

\* C8: the fetched rows are the cursor's rows, as many and in their order, each
\* with as many values in their order; a decimal became a float of the same
\* number, a timedelta its string, anything else is the value itself.
C8_RowNormalization ==
    RowsFetched
    => /\ Len(q.query_result) = Len(q.rows)
       /\ \A r \in 1..Len(q.rows) :
             /\ Len(q.query_result[r]) = Len(q.rows[r])
             /\ \A i \in 1..Len(q.rows[r]) : Normalized(q.rows[r][i], q.query_result[r][i])

\* two rows of two values fetched, a decimal and a timedelta among them
C8_Witness ==
    /\ RowsFetched /\ pc = "done" /\ result.kind = "exit_json"
    /\ Len(q.rows) = 2 /\ Len(q.rows[1]) = 2
    /\ q.rows[1] = <<Decimal(1250, -2), Timedelta(1, 7200)>>
    /\ q.rows[2] = <<Integer(1), Timedelta(2, 3661)>>

-----------------------------------------------------------------------------
(* Both modules (checked under Spec) *)

\* C4: an invocation that acquired its session ends with the cursor closed and
\* then the connection closed, whichever way it ends.
C4_SessionReleased ==
    (pc = "done" /\ conn # "none")
    => /\ cursor = "closed"
       /\ conn = "closed"
       /\ closes = <<"cursor", "conn">>
====
